---- MODULE Spec2Model ----
(***************************************************************************)
(* A model of skill/scripts/search_api.py: the LemonData model search      *)
(* script.  One run of main() is a state machine (help / fetch models /    *)
(* fetch pricing / enrich / search or browse / print); the pure functions  *)
(* get_model_category, enrich_models, search_models, format_model_info and *)
(* get_api_endpoint are operators, computed as the code computes them.     *)
(*                                                                         *)
(* Python values are tagged records [t |-> type, v |-> value]; a Python    *)
(* str is a tuple of one-character strings, so that lower() and the `in`   *)
(* substring test are computed character by character.  A character        *)
(* outside ASCII is written by its code point ("U1F3AC").                  *)
(***************************************************************************)
EXTENDS Integers, Sequences, FiniteSets, TLC

VARIABLES
    argv,         \* sys.argv[1:], a sequence of Python strs
    pc,           \* position of main(): see the actions
    keyword,      \* main's local: None or a str
    category,     \* main's local: None or a str
    requests,     \* the HTTP GETs issued so far, in order
    modelsResp,   \* what the models endpoint answered (NoResp before)
    pricingResp,  \* what the pricing endpoint answered (NoResp before)
    models,       \* main's local `models`: raw list, then the enriched list
    pricing,      \* main's local `pricing`
    results,      \* main's local `results`
    out,          \* what has been printed, blank lines left out; a fixed text
                  \* of several lines (the usage, the closing hints) is one entry
    exitCode,     \* Running, or the process's exit status
    i,            \* the loop index of `for i, model in enumerate(results[:20], 1)`
    call          \* a single call of a pure function: its arguments and its result

mainVars == <<argv, pc, keyword, category, requests, modelsResp, pricingResp,
              models, pricing, results, out, exitCode, i>>
vars == <<argv, pc, keyword, category, requests, modelsResp, pricingResp,
          models, pricing, results, out, exitCode, i, call>>

(***************************************************************************)
(* Bounds of the model.                                                    *)
(***************************************************************************)
MaxFrags == 2          \* a classified identifier is made of at most MaxFrags fragments
MaxSearchModels == 3   \* search_models alone is given at most MaxSearchModels records
MaxPrice == 1          \* a price of the pricing service is an int in 0..MaxPrice
MaxCatalog == 22       \* the catalog of a run of main() has at most MaxCatalog items

(***************************************************************************)
(* Python values.                                                          *)
(***************************************************************************)
PyNone == [t |-> "NoneType"]
PyInt(n) == [t |-> "int", v |-> n]
PyBool(b) == [t |-> "bool", v |-> b]
PyStr(s) == [t |-> "str", v |-> s]
PyList(s) == [t |-> "list", v |-> s]
PyDict(f) == [t |-> "dict", v |-> f]
EmptyDict == PyDict(<<>>)

\* bool(x): the truth value `if x:` and `a and b` test
Truthy(x) ==
    CASE x.t = "NoneType" -> FALSE
      [] x.t = "bool" -> x.v
      [] x.t = "int" -> x.v # 0
      [] x.t = "str" -> Len(x.v) > 0
      [] x.t = "list" -> Len(x.v) > 0
      [] x.t = "dict" -> DOMAIN x.v # {}

\* d.get(k, default) of a dict
Get(d, k, default) == IF k \in DOMAIN d.v THEN d.v[k] ELSE default

UpperCase == <<"A","B","C","D","E","F","G","H","I","J","K","L","M","N","O","P","Q","R","S","T","U","V","W","X","Y","Z">>
LowerCase == <<"a","b","c","d","e","f","g","h","i","j","k","l","m","n","o","p","q","r","s","t","u","v","w","x","y","z">>

LowerChar(c) ==
    IF \E n \in 1..Len(UpperCase) : UpperCase[n] = c
    THEN LowerCase[CHOOSE n \in 1..Len(UpperCase) : UpperCase[n] = c]
    ELSE c

\* s.lower() on the characters of a str
lower(s) == [n \in 1..Len(s) |-> LowerChar(s[n])]

\* `sub in s` on the characters of two strs
Contains(sub, s) ==
    \E k \in 0..(Len(s) - Len(sub)) : SubSeq(s, k + 1, k + Len(sub)) = sub

\* any(x in s for x in keywords)
AnyIn(keywords, s) == \E n \in 1..Len(keywords) : Contains(keywords[n], s)

(***************************************************************************)
(* get_model_category                                                      *)
(***************************************************************************)
VideoKeywords == << <<"s","o","r","a">>, <<"r","u","n","w","a","y">>, <<"k","l","i","n","g">>, <<"l","u","m","a">>, <<"p","i","k","a">>, <<"v","i","d","e","o">> >>
MusicKeywords == << <<"s","u","n","o">>, <<"m","u","s","i","c">>, <<"u","d","i","o">> >>
ThreeDKeywords == << <<"t","r","i","p","o">>, <<"3","d">>, <<"m","e","s","h">> >>
ImageKeywords == << <<"d","a","l","l","-","e">>, <<"d","a","l","l","e">>, <<"m","i","d","j","o","u","r","n","e","y">>, <<"f","l","u","x">>, <<"s","d">>,
                    <<"s","t","a","b","l","e">>, <<"i","m","a","g","e","n">>, <<"i","d","e","o","g","r","a","m">> >>
AudioKeywords == << <<"t","t","s">>, <<"w","h","i","s","p","e","r">>, <<"s","p","e","e","c","h">>, <<"a","u","d","i","o">> >>
EmbeddingKeywords == << <<"e","m","b","e","d","d","i","n","g">>, <<"e","m","b","e","d">> >>
RerankKeywords == << <<"r","e","r","a","n","k">> >>

CatVideo == <<"U1F3AC"," ","V","i","d","e","o"," ","G","e","n","e","r","a","t","i","o","n">>
CatMusic == <<"U1F3B5"," ","M","u","s","i","c"," ","G","e","n","e","r","a","t","i","o","n">>
Cat3D == <<"U1F5FF"," ","3","D"," ","M","o","d","e","l","s">>
CatImage == <<"U1F3A8"," ","I","m","a","g","e"," ","G","e","n","e","r","a","t","i","o","n">>
CatAudio == <<"U1F3A4"," ","A","u","d","i","o"," ","P","r","o","c","e","s","s","i","n","g">>
CatEmbeddings == <<"U1F4CA"," ","E","m","b","e","d","d","i","n","g","s">>
CatRerank == <<"U1F504"," ","R","e","r","a","n","k">>
CatChat == <<"U1F4AC"," ","C","h","a","t"," ","C","o","m","p","l","e","t","i","o","n">>

\* get_model_category with a slip: the Audio test moved before the Music test
get_model_category_audio_first(model_id, owned_by) ==
    LET model_lower == lower(model_id.v) IN
    IF AnyIn(VideoKeywords, model_lower) THEN PyStr(CatVideo)
    ELSE IF AnyIn(AudioKeywords, model_lower) THEN PyStr(CatAudio)
    ELSE IF AnyIn(MusicKeywords, model_lower) THEN PyStr(CatMusic)
    ELSE IF AnyIn(ThreeDKeywords, model_lower) THEN PyStr(Cat3D)
    ELSE IF AnyIn(ImageKeywords, model_lower) THEN PyStr(CatImage)
    ELSE IF AnyIn(EmbeddingKeywords, model_lower) THEN PyStr(CatEmbeddings)
    ELSE IF Contains(<<"r","e","r","a","n","k">>, model_lower) THEN PyStr(CatRerank)
    ELSE PyStr(CatChat)

\* model_id is a str (the caller has checked, see enrich_models)
get_model_category(model_id, owned_by) ==
    LET model_lower == lower(model_id.v) IN
    IF AnyIn(VideoKeywords, model_lower) THEN PyStr(CatVideo)
    ELSE IF AnyIn(MusicKeywords, model_lower) THEN PyStr(CatMusic)
    ELSE IF AnyIn(ThreeDKeywords, model_lower) THEN PyStr(Cat3D)
    ELSE IF AnyIn(ImageKeywords, model_lower) THEN PyStr(CatImage)
    ELSE IF AnyIn(AudioKeywords, model_lower) THEN PyStr(CatAudio)
    ELSE IF AnyIn(EmbeddingKeywords, model_lower) THEN PyStr(CatEmbeddings)
    ELSE IF Contains(<<"r","e","r","a","n","k">>, model_lower) THEN PyStr(CatRerank)
    ELSE PyStr(CatChat)

(***************************************************************************)
(* The result of a call that may raise: the value, or the exception.       *)
(***************************************************************************)
Return(x) == [exc |-> "none", val |-> x]
Raise(e) == [exc |-> e]

(***************************************************************************)
(* enrich_models                                                           *)
(***************************************************************************)
\* what one turn of the loop raises: model.get on a non-dict, model_id.lower()
\* on a non-str (an unhashable id fails already in pricing.get), price_info.get
\* on a non-dict; "none" when the turn appends a record
EnrichRaises(model, pricing_) ==
    IF model.t # "dict" THEN "AttributeError"
    ELSE LET model_id == Get(model, "id", PyStr(<<>>)) IN
         IF model_id.t \in {"list", "dict"} THEN "TypeError"
         ELSE IF model_id.t # "str" THEN "AttributeError"
         ELSE IF Get(pricing_, model_id.v, EmptyDict).t # "dict" THEN "AttributeError"
         ELSE "none"

\* the record one turn of the loop appends
EnrichOne(model, pricing_) ==
    LET model_id == Get(model, "id", PyStr(<<>>))
        owned_by == Get(model, "owned_by", PyStr(<<>>))
        price_info == Get(pricing_, model_id.v, EmptyDict)
    IN  PyDict([id |-> model_id,
                owned_by |-> owned_by,
                category |-> get_model_category(model_id, owned_by),
                input_price |-> Get(price_info, "input_per_1m", PyNone),
                output_price |-> Get(price_info, "output_per_1m", PyNone),
                per_request |-> Get(price_info, "per_request", PyNone),
                is_lock_price |-> Get(price_info, "is_lock_price", PyBool(FALSE))])

\* models is what fetch_models returned (a list, or None for "data": null);
\* pricing is a dict
enrich_models(models_, pricing_) ==
    IF models_.t # "list" THEN Raise("TypeError")
    ELSE LET bad == { n \in 1..Len(models_.v) :
                        EnrichRaises(models_.v[n], pricing_) # "none" } IN
         IF bad # {}
         THEN Raise(EnrichRaises(
                  models_.v[CHOOSE n \in bad : \A k \in bad : n <= k], pricing_))
         ELSE Return(PyList([n \in 1..Len(models_.v) |->
                                EnrichOne(models_.v[n], pricing_)]))

(***************************************************************************)
(* search_models                                                           *)
(***************************************************************************)
\* the fields of an enriched record are strs
InCategory(m, category_lower) ==
    Contains(category_lower, lower(Get(m, "category", PyStr(<<>>)).v))

InAnyField(m, keyword_lower) ==
    \/ Contains(keyword_lower, lower(Get(m, "id", PyStr(<<>>)).v))
    \/ Contains(keyword_lower, lower(Get(m, "owned_by", PyStr(<<>>)).v))
    \/ Contains(keyword_lower, lower(Get(m, "category", PyStr(<<>>)).v))

\* search_models with a slip: the keyword filter is applied to the full
\* collection instead of the records the category filter kept
search_models_keyword_from_all(models_, keyword_, category_) ==
    LET CatTest(m) == InCategory(m, lower(category_.v))
        KeyTest(m) == InAnyField(m, lower(keyword_.v))
        results1 == IF Truthy(category_) THEN SelectSeq(models_.v, CatTest)
                    ELSE models_.v
        results2 == IF Truthy(keyword_) THEN SelectSeq(models_.v, KeyTest)
                    ELSE results1
    IN  PyList(results2)

search_models(models_, keyword_, category_) ==
    LET CatTest(m) == InCategory(m, lower(category_.v))
        KeyTest(m) == InAnyField(m, lower(keyword_.v))
        results1 == IF Truthy(category_) THEN SelectSeq(models_.v, CatTest)
                    ELSE models_.v
        results2 == IF Truthy(keyword_) THEN SelectSeq(results1, KeyTest)
                    ELSE results1
    IN  PyList(results2)

(***************************************************************************)
(* format_model_info                                                       *)
(***************************************************************************)
Digits == <<"0","1","2","3","4","5","6","7","8","9">>

RECURSIVE DecStr(_)
\* str(n) of an int n >= 0
DecStr(n) == IF n < 10 THEN <<Digits[n + 1]>>
             ELSE DecStr(n \div 10) \o <<Digits[(n % 10) + 1]>>

\* what an f-string puts for {x}
Str(x) ==
    CASE x.t = "NoneType" -> <<"N","o","n","e">>
      [] x.t = "bool" -> IF x.v THEN <<"T","r","u","e">> ELSE <<"F","a","l","s","e">>
      [] x.t = "int" -> DecStr(x.v)
      [] x.t = "str" -> x.v

\* the price line of format_model_info
PriceStr(model) ==
    IF Truthy(Get(model, "is_lock_price", PyNone)) /\ Truthy(Get(model, "per_request", PyNone))
    THEN <<"$">> \o Str(model.v["per_request"]) \o <<"/","r","e","q","u","e","s","t">>
    ELSE IF Truthy(Get(model, "input_price", PyNone))
    THEN <<"I","n","p","u","t"," ","$">> \o Str(model.v["input_price"]) \o <<"/","1","M",","," ","O","u","t","p","u","t"," ","$">>
         \o Str(Get(model, "output_price", PyStr(<<"N","/","A">>))) \o <<"/","1","M">>
    ELSE <<"P","r","i","c","i","n","g"," ","T","B","D">>

\* the text, as its five lines
format_model_info(model, index) ==
    LET prefix == IF index > 0 THEN DecStr(index) \o <<"."," ">> ELSE <<>> IN
    << prefix \o <<"*","*">> \o Str(model.v["id"]) \o <<"*","*">>,
       <<" "," "," ","-"," ","C","a","t","e","g","o","r","y",":"," ">> \o Str(model.v["category"]),
       <<" "," "," ","-"," ","P","r","o","v","i","d","e","r",":"," ">> \o Str(model.v["owned_by"]),
       <<" "," "," ","-"," ","P","r","i","c","i","n","g",":"," ">> \o PriceStr(model),
       <<" "," "," ","-"," ","D","o","c","s",":"," ","h","t","t","p","s",":","/","/","d","o","c","s",".","l","e","m","o","n","d","a","t","a",".","c","c","/","a","p","i","-","r","e","f","e","r","e","n","c","e">> >>

(***************************************************************************)
(* get_api_endpoint                                                        *)
(***************************************************************************)
endpoints ==
    << <<CatChat, <<"/","v","1","/","c","h","a","t","/","c","o","m","p","l","e","t","i","o","n","s">>>>,
       <<CatImage, <<"/","v","1","/","i","m","a","g","e","s","/","g","e","n","e","r","a","t","i","o","n","s">>>>,
       <<CatVideo, <<"/","v","1","/","v","i","d","e","o","/","g","e","n","e","r","a","t","i","o","n","s">>>>,
       <<CatMusic, <<"/","v","1","/","m","u","s","i","c","/","g","e","n","e","r","a","t","i","o","n","s">>>>,
       <<Cat3D, <<"/","v","1","/","3","d","/","g","e","n","e","r","a","t","i","o","n","s">>>>,
       <<CatAudio, <<"/","v","1","/","a","u","d","i","o","/","s","p","e","e","c","h"," ","o","r"," ","/","v","1","/","a","u","d","i","o","/","t","r","a","n","s","c","r","i","p","t","i","o","n","s">>>>,
       <<CatEmbeddings, <<"/","v","1","/","e","m","b","e","d","d","i","n","g","s">>>>,
       <<CatRerank, <<"/","v","1","/","r","e","r","a","n","k">>>> >>

\* endpoints.get(category, "/v1/chat/completions") on the characters of category
get_api_endpoint(category_) ==
    IF \E n \in 1..Len(endpoints) : endpoints[n][1] = category_
    THEN endpoints[CHOOSE n \in 1..Len(endpoints) : endpoints[n][1] = category_][2]
    ELSE <<"/","v","1","/","c","h","a","t","/","c","o","m","p","l","e","t","i","o","n","s">>

(***************************************************************************)
(* The state of main() before it runs; the specifications of the pure      *)
(* functions leave it alone.                                               *)
(***************************************************************************)
Running == -1
NoResp == [kind |-> "none"]
NoCall == [op |-> "none"]

MainIdle ==
    /\ argv = <<>>
    /\ pc = "idle"
    /\ keyword = PyNone
    /\ category = PyNone
    /\ requests = <<>>
    /\ modelsResp = NoResp
    /\ pricingResp = NoResp
    /\ models = PyNone
    /\ pricing = PyNone
    /\ results = PyNone
    /\ out = <<>>
    /\ exitCode = Running
    /\ i = 0

(***************************************************************************)
(* Items of the catalog, as the models endpoint describes them.            *)
(***************************************************************************)
RawModel(id, owner) == PyDict([id |-> PyStr(id), owned_by |-> PyStr(owner)])

ModelPool ==
    << RawModel(<<"g","p","t","-","4","o">>, <<"o","p","e","n","a","i">>),
       RawModel(<<"f","l","u","x","-","p","r","o">>, <<"b","f","l">>),
       RawModel(<<"s","u","n","o","-","v","3">>, <<"s","u","n","o">>),
       RawModel(<<"V","e","o","-","V","i","d","e","o">>, <<"F","l","u","x"," ","L","a","b","s">>) >>

(***************************************************************************)
(* The two endpoints.  A GET ends in a transport failure (requests.get     *)
(* raises), in a non-success status (raise_for_status raises) or in a      *)
(* parsed JSON body.  A body that does not parse is left out: whether      *)
(* response.json() then raises a RequestException depends on the version   *)
(* of the requests library.                                                *)
(***************************************************************************)
RequestFailed(resp) == resp.kind \in {"transport_error", "http_error"}

\* the catalog of n items: item k is an item of the pool, its id made unique
\* by the suffix -k
Catalog(n) ==
    [k \in 1..n |->
        LET base == ModelPool[((k - 1) % Len(ModelPool)) + 1] IN
        RawModel(base.v["id"].v \o <<"-">> \o DecStr(k), base.v["owned_by"].v)]

ModelsBodies ==
    { PyList(<<>>),                                  \* not an object
      EmptyDict,                                     \* no "data"
      PyDict([data |-> PyNone]),                     \* "data": null
      PyDict([data |-> PyList(<<PyStr(<<"g","p","t","-","4","o">>)>>)]) }  \* an item that is no object
    \cup { PyDict([data |-> PyList(Catalog(n))]) : n \in 0..MaxCatalog }

ModelsResponses ==
    { [kind |-> "transport_error"], [kind |-> "http_error"] }
    \cup { [kind |-> "ok", body |-> b] : b \in ModelsBodies }

PricingItem(id, price_info) == PyDict([model |-> PyStr(id), pricing |-> price_info])

PricingBodies ==
    { PyList(<<>>),                                  \* not an object
      EmptyDict,                                     \* no "data"
      PyDict([data |-> PyNone]),                     \* "data": null
      PyDict([data |-> PyList(<<PyDict([pricing |-> EmptyDict])>>)]),  \* no "model"
      PyDict([data |-> PyList(<<
          PricingItem(<<"g","p","t","-","4","o","-","1">>, PyDict([per_request |-> PyInt(1),
                                            is_lock_price |-> PyBool(TRUE)])),
          PricingItem(<<"f","l","u","x","-","p","r","o","-","2">>, PyDict([input_per_1m |-> PyInt(1),
                                              output_per_1m |-> PyInt(2)])),
          PyDict([model |-> PyStr(<<"s","u","n","o","-","v","3","-","3">>)]) >>)]) }

PricingResponses ==
    { [kind |-> "transport_error"], [kind |-> "http_error"] }
    \cup { [kind |-> "ok", body |-> b] : b \in PricingBodies }

(***************************************************************************)
(* fetch_models                                                            *)
(***************************************************************************)
\* fetch_models with a slip: a failed request yields an empty list
fetch_models_swallow(resp) ==
    IF RequestFailed(resp) THEN Return(PyList(<<>>))
    ELSE IF resp.body.t # "dict" THEN Raise("AttributeError")
    ELSE Return(Get(resp.body, "data", PyList(<<>>)))

\* a RequestException is raised again as Exception; data.get on a body that is
\* no dict raises AttributeError, which the function does not catch
fetch_models(resp) ==
    IF RequestFailed(resp) THEN Raise("Exception")
    ELSE IF resp.body.t # "dict" THEN Raise("AttributeError")
    ELSE Return(Get(resp.body, "data", PyList(<<>>)))

(***************************************************************************)
(* fetch_pricing                                                           *)
(***************************************************************************)
\* what the loop over the items raises: item["model"] on a str or on a dict
\* without that key; "none" when every item is stored
PricingLoopRaises(items) ==
    LET bad == { n \in 1..Len(items) :
                   items[n].t # "dict" \/ "model" \notin DOMAIN items[n].v } IN
    IF bad = {} THEN "none"
    ELSE IF items[CHOOSE n \in bad : \A k \in bad : n <= k].t # "dict" THEN "TypeError"
    ELSE "KeyError"

\* the dict the loop builds: a later item of the same model replaces an earlier
PricingOf(items) ==
    LET keys == { items[n].v["model"].v : n \in 1..Len(items) }
        last(k) == CHOOSE n \in 1..Len(items) :
                      /\ items[n].v["model"].v = k
                      /\ \A m \in 1..Len(items) : items[m].v["model"].v = k => m <= n
    IN  PyDict([k \in keys |-> Get(items[last(k)], "pricing", EmptyDict)])

\* fetch_pricing with a slip: a failed request raises, as in fetch_models
fetch_pricing_raise(resp) ==
    IF RequestFailed(resp) THEN Raise("Exception")
    ELSE IF resp.body.t # "dict" THEN Raise("AttributeError")
    ELSE LET data == Get(resp.body, "data", PyList(<<>>)) IN
         IF data.t # "list" THEN Raise("TypeError")
         ELSE IF PricingLoopRaises(data.v) # "none" THEN Raise(PricingLoopRaises(data.v))
         ELSE Return(PricingOf(data.v))

\* fetch_pricing with a slip: a body without "data" raises KeyError
fetch_pricing_require_data(resp) ==
    IF RequestFailed(resp) THEN Return(EmptyDict)
    ELSE IF resp.body.t # "dict" THEN Raise("AttributeError")
    ELSE IF "data" \notin DOMAIN resp.body.v THEN Raise("KeyError")
    ELSE LET data == Get(resp.body, "data", PyList(<<>>)) IN
         IF data.t # "list" THEN Raise("TypeError")
         ELSE IF PricingLoopRaises(data.v) # "none" THEN Raise(PricingLoopRaises(data.v))
         ELSE Return(PricingOf(data.v))

\* only a RequestException is caught; data is a list or None here
fetch_pricing(resp) ==
    IF RequestFailed(resp) THEN Return(EmptyDict)
    ELSE IF resp.body.t # "dict" THEN Raise("AttributeError")
    ELSE LET data == Get(resp.body, "data", PyList(<<>>)) IN
         IF data.t # "list" THEN Raise("TypeError")
         ELSE IF PricingLoopRaises(data.v) # "none" THEN Raise(PricingLoopRaises(data.v))
         ELSE Return(PricingOf(data.v))

(***************************************************************************)
(* main                                                                    *)
(***************************************************************************)
DisplayLimit == 20     \* results[:20] and len(results) > 20
ExampleLimit == 5      \* model_list[:5] and len(model_list) > 5

Min(a, b) == IF a <= b THEN a ELSE b

\* Slice with a slip: the bound taken inclusively, s[:n + 1]
Slice_inclusive(s, n) == SubSeq(s, 1, Min(Len(s), n + 1))

\* s[:n]
Slice(s, n) == SubSeq(s, 1, Min(Len(s), n))

\* the eight labels as sorted() orders them: by the code point of the first
\* character, which differs from label to label
SortedCategories ==
    << CatAudio, CatImage, CatVideo, CatMusic, CatChat, CatEmbeddings, CatRerank, Cat3D >>

\* [m for m in models if m["category"] == cat]
OfCategory(models_, cat) ==
    LET Test(m) == m.v["category"].v = cat IN SelectSeq(models_, Test)

\* sorted(set(m["category"] for m in models))
CategoriesOf(models_) ==
    LET Occurs(cat) == \E n \in 1..Len(models_) : models_[n].v["category"].v = cat
    IN  SelectSeq(SortedCategories, Occurs)

\* CategoryBreakdown with a slip: the count is that of the examples browse
\* mode shows, len(model_list[:5])
CategoryBreakdown_shown(models_) ==
    LET cats == CategoriesOf(models_) IN
    [n \in 1..Len(cats) |->
        [kind |-> "category_count", cat |-> cats[n],
         count |-> Len(SubSeq(OfCategory(models_, cats[n]), 1,
                              Min(Len(OfCategory(models_, cats[n])), 5)))]]

\* the lines "  - {cat} ({count} models)" of the zero-match fallback
CategoryBreakdown(models_) ==
    LET cats == CategoriesOf(models_) IN
    [n \in 1..Len(cats) |->
        [kind |-> "category_count", cat |-> cats[n],
         count |-> Len(OfCategory(models_, cats[n]))]]

RECURSIVE BrowseLines(_, _)
\* the lines of browse mode for the categories cats, in order
BrowseLines(models_, cats) ==
    IF cats = <<>> THEN <<>>
    ELSE LET model_list == OfCategory(models_, Head(cats))
             shown == Slice(model_list, ExampleLimit)
         IN  << [kind |-> "category", cat |-> Head(cats), count |-> Len(model_list)] >>
             \o [n \in 1..Len(shown) |-> [kind |-> "example", id |-> shown[n].v["id"].v]]
             \o (IF Len(model_list) > ExampleLimit
                 THEN << [kind |-> "category_more", n |-> Len(model_list) - ExampleLimit] >>
                 ELSE <<>>)
             \o BrowseLines(models_, Tail(cats))

Argvs ==
    { <<>>,
      << PyStr(<<"-","h">>) >>,
      << PyStr(<<"-","-","h","e","l","p">>) >>,
      << PyStr(<<"-","-","h","e","l","p">>), PyStr(<<"f","l","u","x">>), PyStr(<<"i","m","a","g","e">>) >>,
      << PyStr(<<>>) >>,
      << PyStr(<<>>), PyStr(<<>>) >>,
      << PyStr(<<"f","l","u","x">>) >>,
      << PyStr(<<"O">>) >>,
      << PyStr(<<"z","z","z">>) >>,
      << PyStr(<<>>), PyStr(<<"v","i","d","e","o">>) >>,
      << PyStr(<<>>), PyStr(<<"i","m","a","g","e">>) >>,
      << PyStr(<<"o">>), PyStr(<<"G","E","N","E","R","A","T","I","O","N">>) >>,
      << PyStr(<<"f","l","u","x">>), PyStr(<<"i","m","a","g","e">>) >>,
      << PyStr(<<"f","l","u","x">>), PyStr(<<"-","h">>) >> }

Init ==
    /\ argv \in Argvs
    /\ pc = "start"
    /\ keyword = PyNone
    /\ category = PyNone
    /\ requests = <<>>
    /\ modelsResp = NoResp
    /\ pricingResp = NoResp
    /\ models = PyNone
    /\ pricing = PyNone
    /\ results = PyNone
    /\ out = <<>>
    /\ exitCode = Running
    /\ i = 0
    /\ call = NoCall

\* HelpAsked with a slip: help only when it is the sole argument
HelpAsked_sole == Len(argv) = 1 /\ argv[1].v \in { <<"-","h">>, <<"-","-","h","e","l","p">> }

\* len(sys.argv) > 1 and sys.argv[1] in ['-h', '--help']
HelpAsked == Len(argv) > 0 /\ argv[1].v \in { <<"-","h">>, <<"-","-","h","e","l","p">> }

\* the usage text, sys.exit(0)
Help ==
    /\ pc = "start"
    /\ HelpAsked
    /\ out' = Append(out, [kind |-> "usage"])
    /\ exitCode' = 0
    /\ pc' = "exited"
    /\ UNCHANGED <<argv, keyword, category, requests, modelsResp, pricingResp,
                   models, pricing, results, i, call>>

\* keyword and category from sys.argv, "Fetching latest model list ..."
ParseArgs ==
    /\ pc = "start"
    /\ ~HelpAsked
    /\ keyword' = IF Len(argv) > 0 /\ Truthy(argv[1]) THEN argv[1] ELSE PyNone
    /\ category' = IF Len(argv) > 1 THEN argv[2] ELSE PyNone
    /\ out' = Append(out, [kind |-> "fetching"])
    /\ pc' = "fetch_models"
    /\ UNCHANGED <<argv, requests, modelsResp, pricingResp, models, pricing,
                   results, exitCode, i, call>>

\* except Exception as e: print(f"x {e}"); sys.exit(1)
Abort(e) ==
    /\ out' = Append(out, [kind |-> "error", exc |-> e])
    /\ exitCode' = 1
    /\ pc' = "exited"

\* FetchModels with a slip: a failed request is issued again
FetchModels_retry ==
    /\ pc = "fetch_models"
    /\ \E resp \in ModelsResponses :
         /\ requests' = Append(requests, "models")
         /\ modelsResp' = resp
         /\ LET r == fetch_models(resp) IN
            IF RequestFailed(resp)
            THEN UNCHANGED <<models, pc, out, exitCode>>
            ELSE IF r.exc # "none"
            THEN Abort(r.exc) /\ UNCHANGED models
            ELSE /\ models' = r.val
                 /\ pc' = "fetch_pricing"
                 /\ UNCHANGED <<out, exitCode>>
    /\ UNCHANGED <<argv, keyword, category, pricingResp, pricing, results, i, call>>

\* models = fetch_models()
FetchModels ==
    /\ pc = "fetch_models"
    /\ \E resp \in ModelsResponses :
         /\ requests' = Append(requests, "models")
         /\ modelsResp' = resp
         /\ LET r == fetch_models(resp) IN
            IF r.exc # "none"
            THEN Abort(r.exc) /\ UNCHANGED models
            ELSE /\ models' = r.val
                 /\ pc' = "fetch_pricing"
                 /\ UNCHANGED <<out, exitCode>>
    /\ UNCHANGED <<argv, keyword, category, pricingResp, pricing, results, i, call>>

\* pricing = fetch_pricing()
FetchPricing ==
    /\ pc = "fetch_pricing"
    /\ \E resp \in PricingResponses :
         /\ requests' = Append(requests, "pricing")
         /\ pricingResp' = resp
         /\ LET r == fetch_pricing(resp) IN
            IF r.exc # "none"
            THEN Abort(r.exc) /\ UNCHANGED pricing
            ELSE /\ pricing' = r.val
                 /\ pc' = "enrich"
                 /\ UNCHANGED <<out, exitCode>>
    /\ UNCHANGED <<argv, keyword, category, modelsResp, models, results, i, call>>

\* models = enrich_models(models, pricing); "Success, found N models"
Enrich ==
    /\ pc = "enrich"
    /\ LET r == enrich_models(models, pricing) IN
       IF r.exc # "none"
       THEN Abort(r.exc) /\ UNCHANGED models
       ELSE /\ models' = r.val
            /\ out' = Append(out, [kind |-> "success", n |-> Len(r.val.v)])
            /\ pc' = "dispatch"
            /\ UNCHANGED exitCode
    /\ UNCHANGED <<argv, keyword, category, requests, modelsResp, pricingResp,
                   pricing, results, i, call>>

\* if keyword or category
SearchMode == Truthy(keyword) \/ Truthy(category)

\* results = search_models(...), the count line and, with no match, the
\* fallback and sys.exit(0)
Search ==
    /\ pc = "dispatch"
    /\ SearchMode
    /\ LET r == search_models(models, keyword, category) IN
       /\ results' = r
       /\ IF Len(r.v) = 0
          THEN /\ out' = out \o << [kind |-> "count", n |-> 0],
                                   [kind |-> "no_match"],
                                   [kind |-> "available_categories"] >>
                             \o CategoryBreakdown(models.v)
               /\ exitCode' = 0
               /\ pc' = "exited"
               /\ UNCHANGED i
          ELSE /\ out' = Append(out, [kind |-> "count", n |-> Len(r.v)])
               /\ i' = 1
               /\ pc' = "print_loop"
               /\ UNCHANGED exitCode
    /\ UNCHANGED <<argv, keyword, category, requests, modelsResp, pricingResp,
                   models, pricing, call>>

\* one turn of for i, model in enumerate(results[:20], 1)
PrintRecord ==
    /\ pc = "print_loop"
    /\ i <= Len(Slice(results.v, DisplayLimit))
    /\ LET model == Slice(results.v, DisplayLimit)[i] IN
       out' = out \o << [kind |-> "record", text |-> format_model_info(model, i)],
                        [kind |-> "endpoint",
                         path |-> get_api_endpoint(model.v["category"].v)] >>
    /\ i' = i + 1
    /\ UNCHANGED <<argv, pc, keyword, category, requests, modelsResp, pricingResp,
                   models, pricing, results, exitCode, call>>

\* after the loop: the remainder line, and main returns
PrintMore ==
    /\ pc = "print_loop"
    /\ i > Len(Slice(results.v, DisplayLimit))
    /\ out' = IF Len(results.v) > DisplayLimit
              THEN out \o << [kind |-> "more", n |-> Len(results.v) - DisplayLimit],
                             [kind |-> "hint"] >>
              ELSE out
    /\ exitCode' = 0
    /\ pc' = "exited"
    /\ UNCHANGED <<argv, keyword, category, requests, modelsResp, pricingResp,
                   models, pricing, results, i, call>>

\* the category statistics, and main returns
Browse ==
    /\ pc = "dispatch"
    /\ ~SearchMode
    /\ out' = out \o << [kind |-> "stats_header"] >>
                  \o BrowseLines(models.v, CategoriesOf(models.v))
                  \o << [kind |-> "chat_endpoint", path |-> get_api_endpoint(CatChat)],
                        [kind |-> "search_hint"] >>
    /\ exitCode' = 0
    /\ pc' = "exited"
    /\ UNCHANGED <<argv, keyword, category, requests, modelsResp, pricingResp,
                   models, pricing, results, i, call>>

Next ==
    \/ Help
    \/ ParseArgs
    \/ FetchModels
    \/ FetchPricing
    \/ Enrich
    \/ Search
    \/ PrintRecord
    \/ PrintMore
    \/ Browse

Spec == Init /\ [][Next]_vars

(***************************************************************************)
(* Specification of get_model_category alone: the identifier is drawn from *)
(* the concatenations of at most MaxFrags fragments; a fragment is a       *)
(* keyword of some group (as written, or in another case), a piece of a    *)
(* keyword (so that a keyword can straddle two fragments) or a filler.     *)
(***************************************************************************)
KeywordFragments ==
    { VideoKeywords[n] : n \in 1..Len(VideoKeywords) }
    \cup { MusicKeywords[n] : n \in 1..Len(MusicKeywords) }
    \cup { ThreeDKeywords[n] : n \in 1..Len(ThreeDKeywords) }
    \cup { ImageKeywords[n] : n \in 1..Len(ImageKeywords) }
    \cup { AudioKeywords[n] : n \in 1..Len(AudioKeywords) }
    \cup { EmbeddingKeywords[n] : n \in 1..Len(EmbeddingKeywords) }
    \cup { RerankKeywords[n] : n \in 1..Len(RerankKeywords) }

OtherFragments ==
    { <<"G","P","T","-","4","o">>, <<"-">>, <<"V","i","d","e","o">>, <<"S","U","N","O">>,
      <<"R","e","R","a","n","k">>, <<"s">>, <<"d">> }

Fragments == KeywordFragments \cup OtherFragments

RECURSIVE Concats(_)
\* the concatenations of at most n fragments
Concats(n) ==
    IF n = 0 THEN { <<>> }
    ELSE Concats(n - 1) \cup { s \o f : s \in Concats(n - 1), f \in Fragments }

ClassifyIds == Concats(MaxFrags)

InitClassify ==
    /\ MainIdle
    /\ call \in { [op |-> "classify", arg |-> PyStr(id), done |-> FALSE, ret |-> PyNone] :
                  id \in ClassifyIds }

CallClassify ==
    /\ call.op = "classify"
    /\ ~call.done
    /\ call' = [call EXCEPT !.done = TRUE,
                            !.ret = get_model_category(call.arg, PyStr(<<>>))]
    /\ UNCHANGED mainVars

NextClassify == CallClassify

SpecClassify == InitClassify /\ [][NextClassify]_vars

RECURSIVE ListsUpTo(_)
\* the sequences of at most n items of the pool
ListsUpTo(n) ==
    IF n = 0 THEN { <<>> }
    ELSE ListsUpTo(n - 1)
         \cup { Append(s, ModelPool[k]) : s \in ListsUpTo(n - 1), k \in 1..Len(ModelPool) }

(***************************************************************************)
(* Specification of search_models alone: the collection is enrich_models   *)
(* of at most MaxSearchModels items with no pricing; keyword and category  *)
(* are None or a str.                                                      *)
(***************************************************************************)
SearchKeywords ==
    { PyNone, PyStr(<<>>), PyStr(<<"f","l","u","x">>), PyStr(<<"F","L","U","X">>), PyStr(<<"o">>),
      PyStr(<<"i","m","a","g","e">>), PyStr(<<"z","z","z">>) }

SearchCategories ==
    { PyNone, PyStr(<<>>), PyStr(<<"i","m","a","g","e">>), PyStr(<<"G","E","N","E","R","A","T","I","O","N">>), PyStr(<<"v","i","d","e","o">>),
      PyStr(<<"c","h","a","t">>), PyStr(<<"z","z","z">>) }

InitSearch ==
    /\ MainIdle
    /\ call \in { [op |-> "search",
                   models |-> enrich_models(PyList(raw), EmptyDict).val,
                   keyword |-> kw, category |-> cat,
                   done |-> FALSE, ret |-> PyNone, retCategoryOnly |-> PyNone] :
                  raw \in ListsUpTo(MaxSearchModels),
                  kw \in SearchKeywords, cat \in SearchCategories }

\* search_models(models, keyword, category), and search_models(models, None,
\* category) on the same collection
CallSearch ==
    /\ call.op = "search"
    /\ ~call.done
    /\ call' = [call EXCEPT
                  !.done = TRUE,
                  !.ret = search_models(call.models, call.keyword, call.category),
                  !.retCategoryOnly = search_models(call.models, PyNone, call.category)]
    /\ UNCHANGED mainVars

NextSearch == CallSearch

SpecSearch == InitSearch /\ [][NextSearch]_vars

(***************************************************************************)
(* Specification of format_model_info alone: the record is enrich_models   *)
(* of one item whose pricing entry has each key absent, null or a value.   *)
(***************************************************************************)
Absent == [t |-> "absent"]
PriceValues == { Absent, PyNone } \cup { PyInt(n) : n \in 0..MaxPrice }
LockValues == { Absent, PyNone, PyBool(TRUE), PyBool(FALSE) }

\* the "pricing" object of an item of the pricing endpoint
PriceInfo(inp, outp, per, lock) ==
    LET val(k) == CASE k = "input_per_1m" -> inp
                    [] k = "output_per_1m" -> outp
                    [] k = "per_request" -> per
                    [] k = "is_lock_price" -> lock
        keys == { k \in {"input_per_1m", "output_per_1m", "per_request", "is_lock_price"} :
                    val(k) # Absent }
    IN  PyDict([k \in keys |-> val(k)])

InitFormat ==
    /\ MainIdle
    /\ call \in { [op |-> "format",
                   model |-> ModelPool[2],
                   price_info |-> PriceInfo(inp, outp, per, lock),
                   index |-> idx,
                   done |-> FALSE, enriched |-> PyNone, ret |-> <<>>] :
                  inp \in PriceValues, outp \in PriceValues, per \in PriceValues,
                  lock \in LockValues, idx \in {0, 1} }

\* format_model_info(enrich_models([model], {id: price_info})[0], index)
CallFormat ==
    /\ call.op = "format"
    /\ ~call.done
    /\ LET pricing_ == PyDict([k \in {call.model.v["id"].v} |-> call.price_info])
           enriched == enrich_models(PyList(<<call.model>>), pricing_).val.v[1]
       IN  call' = [call EXCEPT !.done = TRUE,
                                !.enriched = enriched,
                                !.ret = format_model_info(enriched, call.index)]
    /\ UNCHANGED mainVars

NextFormat == CallFormat

SpecFormat == InitFormat /\ [][NextFormat]_vars

(***************************************************************************)
(* C3                                                                      *)
(***************************************************************************)
\* The groups in the priority order of the claim, and each group's category.
GroupKeywords == << VideoKeywords, MusicKeywords, ThreeDKeywords, ImageKeywords,
                    AudioKeywords, EmbeddingKeywords, RerankKeywords >>
GroupCategory == << CatVideo, CatMusic, Cat3D, CatImage, CatAudio, CatEmbeddings,
                    CatRerank >>

\* kw occurs in id at offset k, compared character by character without case
OccursAt(kw, id, k) ==
    /\ k + Len(kw) <= Len(id)
    /\ \A j \in 1..Len(kw) : LowerChar(id[k + j]) = kw[j]

GroupMatches(g, id) ==
    \E n \in 1..Len(GroupKeywords[g]) : \E k \in 0..Len(id) :
        OccursAt(GroupKeywords[g][n], id, k)

MatchingGroups(id) == { g \in 1..Len(GroupKeywords) : GroupMatches(g, id) }

EarliestGroup(id) ==
    CHOOSE g \in MatchingGroups(id) : \A h \in MatchingGroups(id) : g <= h

\* C3: the category of an identifier is that of the earliest group, in the
\* order Video, Music, 3D, Image, Audio, Embeddings, Rerank, one of whose
\* keywords the identifier contains case-insensitively as a plain substring,
\* and Chat Completion when no group matches.
C3_FirstMatchWins ==
    (call.op = "classify" /\ call.done) =>
        call.ret = IF MatchingGroups(call.arg.v) = {}
                   THEN PyStr(CatChat)
                   ELSE PyStr(GroupCategory[EarliestGroup(call.arg.v)])

\* an identifier matching two groups (Music and Audio) has been classified
\* as the earlier one
C3_Witness ==
    /\ call.op = "classify"
    /\ call.done
    /\ Cardinality(MatchingGroups(call.arg.v)) = 2
    /\ 5 \in MatchingGroups(call.arg.v)
    /\ call.ret = PyStr(CatMusic)

(***************************************************************************)
(* C4                                                                      *)
(***************************************************************************)
\* sub occurs in s, compared character by character without case
CIContains(sub, s) ==
    \E k \in 0..Len(s) :
        /\ k + Len(sub) <= Len(s)
        /\ \A j \in 1..Len(sub) : LowerChar(s[k + j]) = LowerChar(sub[j])

RECURSIVE IsSubseq(_, _)
\* a is b with some elements left out, the order kept
IsSubseq(a, b) ==
    IF a = <<>> THEN TRUE
    ELSE IF b = <<>> THEN FALSE
    ELSE IF Head(a) = Head(b) THEN IsSubseq(Tail(a), Tail(b))
    ELSE IsSubseq(a, Tail(b))

\* C4: with a category, search returns, in input order, only records whose
\* category contains it case-insensitively; with the same category and a
\* keyword it returns a subsequence of the category-only result, never more
\* records, each with the keyword in its id, owned_by or category.
C4_SearchNarrows ==
    (call.op = "search" /\ call.done /\ call.category.t = "str") =>
        /\ IsSubseq(call.retCategoryOnly.v, call.models.v)
        /\ \A n \in 1..Len(call.retCategoryOnly.v) :
             CIContains(call.category.v, call.retCategoryOnly.v[n].v["category"].v)
        /\ call.keyword.t = "str" =>
             /\ IsSubseq(call.ret.v, call.retCategoryOnly.v)
             /\ Len(call.ret.v) <= Len(call.retCategoryOnly.v)
             /\ \A n \in 1..Len(call.ret.v) :
                  \/ CIContains(call.keyword.v, call.ret.v[n].v["id"].v)
                  \/ CIContains(call.keyword.v, call.ret.v[n].v["owned_by"].v)
                  \/ CIContains(call.keyword.v, call.ret.v[n].v["category"].v)

\* a category and a keyword that each drop a record: the category filter
\* keeps fewer than all, the keyword keeps fewer again, and something is left
C4_Witness ==
    /\ call.op = "search"
    /\ call.done
    /\ call.category.t = "str"
    /\ call.keyword.t = "str"
    /\ Len(call.retCategoryOnly.v) < Len(call.models.v)
    /\ Len(call.ret.v) < Len(call.retCategoryOnly.v)
    /\ Len(call.ret.v) > 0

(***************************************************************************)
(* C5                                                                      *)
(***************************************************************************)
\* a price field of an enriched record is present when it is not None
Present(x) == x # PyNone

\* the price line the claim gives an enriched record
ClaimedPriceStr(m) ==
    IF m.v["is_lock_price"] = PyBool(TRUE) /\ Present(m.v["per_request"])
    THEN <<"$">> \o Str(m.v["per_request"]) \o <<"/","r","e","q","u","e","s","t">>
    ELSE IF Present(m.v["input_price"])
    THEN <<"I","n","p","u","t"," ","$">> \o Str(m.v["input_price"]) \o <<"/","1","M",","," ","O","u","t","p","u","t"," ","$">>
         \o (IF Present(m.v["output_price"]) THEN Str(m.v["output_price"]) ELSE <<"N","/","A">>)
         \o <<"/","1","M">>
    ELSE <<"P","r","i","c","i","n","g"," ","T","B","D">>

\* C5: whatever the price fields of an enriched record, its price line is
\* "$<per_request>/request" if is_lock_price is true and per_request is
\* present, else "Input $<input_price>/1M, Output $<output_price>/1M" with
\* N/A for an absent output_price if input_price is present, else
\* "Pricing TBD".
C5_PriceLinePriority ==
    (call.op = "format" /\ call.done) =>
        call.ret[4] = <<" "," "," ","-"," ","P","r","i","c","i","n","g",":"," ">> \o ClaimedPriceStr(call.enriched)

(***************************************************************************)
(* Runs of main(): what the claims say of the responses and of the output. *)
(***************************************************************************)
HasLine(k) == \E n \in 1..Len(out) : out[n].kind = k

\* the lines of search mode and of browse mode
DisplayKinds ==
    { "count", "no_match", "available_categories", "category_count", "record",
      "endpoint", "more", "hint", "stats_header", "category", "example",
      "category_more", "chat_endpoint", "search_hint" }

\* the request was answered with a body that parsed
Answered(resp) == resp # NoResp /\ resp.kind = "ok"

\* the request failed: a transport failure or a non-success status
Failed(resp) == resp # NoResp /\ resp.kind \in {"transport_error", "http_error"}

\* the body is an object without the key data
NoData(resp) ==
    Answered(resp) /\ resp.body.t = "dict" /\ "data" \notin DOMAIN resp.body.v

\* the body is no object, or its data is null
WrongShape(resp) ==
    /\ Answered(resp)
    /\ \/ resp.body.t # "dict"
       \/ "data" \in DOMAIN resp.body.v /\ resp.body.v["data"] = PyNone

\* the body is an object whose data, when there, is a list of objects
DataIsObjects(resp) ==
    /\ Answered(resp)
    /\ resp.body.t = "dict"
    /\ "data" \in DOMAIN resp.body.v =>
         /\ resp.body.v["data"].t = "list"
         /\ \A n \in 1..Len(resp.body.v["data"].v) : resp.body.v["data"].v[n].t = "dict"

\* the models fetch succeeded: it returned a sequence of RawModel
ModelsFetched ==
    /\ DataIsObjects(modelsResp)
    /\ "data" \in DOMAIN modelsResp.body.v =>
         \A n \in 1..Len(modelsResp.body.v["data"].v) :
            LET item == modelsResp.body.v["data"].v[n].v IN
            /\ "id" \in DOMAIN item => item["id"].t = "str"
            /\ "owned_by" \in DOMAIN item => item["owned_by"].t = "str"

(***************************************************************************)
(* C1                                                                      *)
(***************************************************************************)
\* C1: when the models fetch succeeds and the pricing request fails, the
\* pricing is the empty mapping, the run goes on to enrichment and a display
\* mode and never exits with 1, it exits with 0 after both, and every price
\* line printed is "Pricing TBD".
C1_PricingFailureNonFatal ==
    (ModelsFetched /\ Failed(pricingResp)) =>
        /\ pricing = EmptyDict
        /\ exitCode # 1
        /\ pc \in {"enrich", "dispatch", "print_loop", "exited"}
        /\ pc = "exited" =>
             /\ exitCode = 0
             /\ HasLine("success")
             /\ HasLine("count") \/ HasLine("stats_header")
        /\ \A n \in 1..Len(out) :
             out[n].kind = "record" =>
                out[n].text[4] = <<" "," "," ","-"," ","P","r","i","c","i","n","g",":"," ","P","r","i","c","i","n","g"," ","T","B","D">>

\* a run with a failed pricing request that has printed records and exited 0
C1_Witness ==
    /\ ModelsFetched
    /\ Failed(pricingResp)
    /\ pc = "exited"
    /\ exitCode = 0
    /\ HasLine("record")

(***************************************************************************)
(* C2                                                                      *)
(***************************************************************************)
\* C2: when the models request fails, the run has printed one error line
\* after the fetching line and nothing else, has exited with 1, and has
\* issued no further request.
C2_ModelsFailureFatal ==
    Failed(modelsResp) =>
        /\ pc = "exited"
        /\ exitCode = 1
        /\ Len(out) = 2
        /\ out[1].kind = "fetching"
        /\ out[2].kind = "error"
        /\ \A n \in 1..Len(out) : out[n].kind \notin DisplayKinds
        /\ requests = <<"models">>

\* a run in search mode whose models request met a non-success status
C2_Witness ==
    /\ Failed(modelsResp)
    /\ modelsResp.kind = "http_error"
    /\ keyword # PyNone
    /\ exitCode = 1

(***************************************************************************)
(* C6                                                                      *)
(***************************************************************************)
\* C6 as stated: a body of either request that parsed but lacks data or has
\* the wrong shape yields an empty sequence (models) or an empty mapping
\* (pricing), and the run does not abort.
C6_MalformedIsNoItems ==
    /\ (NoData(modelsResp) \/ WrongShape(modelsResp)) => models = PyList(<<>>)
    /\ (NoData(pricingResp) \/ WrongShape(pricingResp)) => pricing = EmptyDict
    /\ (/\ NoData(modelsResp) \/ WrongShape(modelsResp) \/ ModelsFetched
        /\ \/ pricingResp = NoResp \/ Failed(pricingResp)
           \/ NoData(pricingResp) \/ WrongShape(pricingResp)) => exitCode # 1

\* C6 as amended: a body that is an object without data yields an empty
\* sequence (models) or an empty mapping (pricing) and the run does not abort
\* on its account; a body that is no object, or whose data is null, is not
\* taken for "no items": the run prints an error line and exits with 1
\* without reaching a display mode.
C6_MissingDataIsNoItems ==
    /\ NoData(modelsResp) =>
         /\ models = PyList(<<>>)
         /\ (pricingResp = NoResp \/ Failed(pricingResp) \/ NoData(pricingResp))
              => exitCode # 1
    /\ NoData(pricingResp) =>
         /\ pricing = EmptyDict
         /\ ModelsFetched => exitCode # 1
    /\ WrongShape(modelsResp) =>
         /\ pc \notin {"dispatch", "print_loop"}
         /\ pc = "exited" => (exitCode = 1 /\ out[Len(out)].kind = "error")
         /\ \A n \in 1..Len(out) : out[n].kind \notin DisplayKinds
    /\ WrongShape(pricingResp) =>
         /\ pc = "exited"
         /\ exitCode = 1
         /\ out[Len(out)].kind = "error"
         /\ \A n \in 1..Len(out) : out[n].kind \notin DisplayKinds

\* both bodies are objects without data, and the run has exited with 0
C6_Witness ==
    /\ NoData(modelsResp)
    /\ NoData(pricingResp)
    /\ models = PyList(<<>>)
    /\ pricing = EmptyDict
    /\ pc = "exited"
    /\ exitCode = 0

(***************************************************************************)
(* C7                                                                      *)
(***************************************************************************)
\* the number of matches of a run in search mode that has found some
Matches == Len(results.v)

\* the lines before the first record: fetching, success, count
Preamble == Len(<< "fetching", "success", "count" >>)

\* C7: a finished search with N >= 1 matches has printed, after the count
\* line, exactly min(N, 20) records: record k is match k numbered k, followed
\* by the endpoint of its category; then the remainder line, with N - 20,
\* if and only if N > 20.
C7_FirstTwentyShown ==
    (pc = "exited" /\ results # PyNone /\ Matches >= 1) =>
        LET shown == IF Matches < 20 THEN Matches ELSE 20 IN
        /\ Cardinality({ n \in 1..Len(out) : out[n].kind = "record" }) = shown
        /\ Cardinality({ n \in 1..Len(out) : out[n].kind = "endpoint" }) = shown
        /\ \A k \in 1..shown :
             /\ out[Preamble + 2 * k - 1] =
                   [kind |-> "record", text |-> format_model_info(results.v[k], k)]
             /\ out[Preamble + 2 * k - 1].text[1] =
                   DecStr(k) \o <<"."," ","*","*">> \o results.v[k].v["id"].v \o <<"*","*">>
             /\ out[Preamble + 2 * k] =
                   [kind |-> "endpoint",
                    path |-> get_api_endpoint(results.v[k].v["category"].v)]
        /\ HasLine("more") <=> Matches > 20
        /\ Matches > 20 =>
             /\ Len(out) = Preamble + 2 * shown + 2
             /\ out[Preamble + 2 * shown + 1] = [kind |-> "more", n |-> Matches - 20]
        /\ Matches <= 20 => Len(out) = Preamble + 2 * shown

\* a finished search with more than 20 matches
C7_Witness ==
    /\ pc = "exited"
    /\ results # PyNone
    /\ Matches > 20
    /\ HasLine("more")
    /\ out[Preamble + 40].kind = "endpoint"

(***************************************************************************)
(* C8                                                                      *)
(***************************************************************************)
RECURSIVE SumCounts(_)
\* the sum of the counts of the category lines among lines
SumCounts(lines) ==
    IF lines = <<>> THEN 0
    ELSE (IF Head(lines).kind = "category_count" THEN Head(lines).count ELSE 0)
         + SumCounts(Tail(lines))

\* C8: a search with no match exits with 0 having printed no record and one
\* count line for each category that occurs in the full enriched collection,
\* with the number of its models there; the counts sum to the number of
\* models.
C8_ZeroMatchBreakdown ==
    (results # PyNone /\ Matches = 0) =>
        /\ pc = "exited"
        /\ exitCode = 0
        /\ ~HasLine("record")
        /\ SumCounts(out) = Len(models.v)
        /\ \A n \in 1..Len(models.v) :
             LET cat == models.v[n].v["category"].v IN
             Cardinality({ k \in 1..Len(out) :
                             out[k].kind = "category_count" /\ out[k].cat = cat }) = 1
        /\ \A k \in 1..Len(out) :
             out[k].kind = "category_count" =>
                out[k].count = Cardinality({ n \in 1..Len(models.v) :
                                               models.v[n].v["category"].v = out[k].cat })
                /\ out[k].count >= 1

\* a search with no match over a collection with more than 5 models of one
\* category and several categories
C8_Witness ==
    /\ results # PyNone
    /\ Matches = 0
    /\ Len(models.v) = MaxCatalog
    /\ Cardinality({ k \in 1..Len(out) : out[k].kind = "category_count" }) >= 3
    /\ exitCode = 0

(***************************************************************************)
(* C9                                                                      *)
(***************************************************************************)
\* the first argument is -h or --help
FirstArgIsHelp == Len(argv) >= 1 /\ argv[1] \in { PyStr(<<"-","h">>), PyStr(<<"-","-","h","e","l","p">>) }

\* C9: a run whose first argument is -h or --help issues no request and does
\* nothing but print the usage text and exit with 0.
C9_HelpNoNetwork ==
    FirstArgIsHelp =>
        /\ requests = <<>>
        /\ modelsResp = NoResp
        /\ pricingResp = NoResp
        /\ \/ pc = "start" /\ out = <<>> /\ exitCode = Running
           \/ pc = "exited" /\ out = << [kind |-> "usage"] >> /\ exitCode = 0

\* --help followed by further arguments has printed the usage and exited
C9_Witness ==
    /\ FirstArgIsHelp
    /\ Len(argv) = 3
    /\ pc = "exited"
    /\ exitCode = 0

(***************************************************************************)
(* C10                                                                     *)
(***************************************************************************)
\* C10: the requests issued are the models request, then the pricing
\* request, each at most once, the pricing request only when the models
\* request has been answered; enrichment is reached only when both have
\* been resolved; every line of search or browse mode comes after the line
\* enrichment ends with.
C10_SequentialFetches ==
    /\ requests \in { <<>>, <<"models">>, <<"models", "pricing">> }
    /\ Len(requests) >= 1 <=> modelsResp # NoResp
    /\ Len(requests) = 2 <=> pricingResp # NoResp
    /\ Len(requests) = 2 => Answered(modelsResp)
    /\ (pc \in {"enrich", "dispatch", "print_loop"} \/ HasLine("success")) =>
         /\ requests = <<"models", "pricing">>
         /\ Answered(modelsResp)
         /\ Answered(pricingResp) \/ Failed(pricingResp)
    /\ \A n \in 1..Len(out) :
         out[n].kind \in DisplayKinds =>
            \E m \in 1..(n - 1) : out[m].kind = "success"

\* a finished run that issued both requests and printed records
C10_Witness ==
    /\ pc = "exited"
    /\ requests = <<"models", "pricing">>
    /\ HasLine("record")

====
